---- MODULE Spec2Model ----
(***************************************************************************)
(* BaseProducer of rust-rdkafka (src/producer/base_producer.rs): a         *)
(* clonable handle on one librdkafka producer.  send_copy hands a message  *)
(* and an opaque per-message pointer to the engine; the engine reports the *)
(* fate of each message through delivery_cb, which it calls from inside    *)
(* rd_kafka_poll / rd_kafka_flush on the thread that polls.                *)
(*                                                                         *)
(* The engine (librdkafka), Client, Arc and CString are not part of the    *)
(* file; they are modelled at their interface.                             *)
(***************************************************************************)
EXTENDS Integers, Sequences, FiniteSets, TLC

\* ------------------------------------------------------------ bounds
NThreads == 2
MaxSends == 2
NPartitions == 2

Threads == 1..NThreads
\* Every thread works through a handle of its own: handle t is thread t's
Handles == Threads
OwnHandle(t) == t
Partitions == 0..(NPartitions - 1)

\* ------------------------------------------------------------ values
\* Option<T>: None is the empty sequence, Some(v) the one-element sequence.
None == <<>>
Some(v) == <<v>>
IsSome(o) == Len(o) = 1
Unwrap(o) == o[1]

\* partition.unwrap_or(-1)
RD_KAFKA_PARTITION_UA == -1
UnwrapOr(o, d) == IF IsSome(o) THEN Unwrap(o) ELSE d

\* ptr::null_mut()
NULL == 0

\* rd_kafka_resp_err_t values used by the model
RD_KAFKA_RESP_ERR_NO_ERROR == 0
RD_KAFKA_RESP_ERR__MSG_TIMED_OUT == -192
RD_KAFKA_RESP_ERR__UNKNOWN_PARTITION == -190
RD_KAFKA_RESP_ERR__INVALID_ARG == -186
RD_KAFKA_RESP_ERR__QUEUE_FULL == -184
RD_KAFKA_OFFSET_INVALID == -1001

\* IsError for RDKafkaRespErr: every code but NO_ERROR
is_error(err) == err # RD_KAFKA_RESP_ERR_NO_ERROR

\* impl From<RDKafkaRespErr> for RDKafkaError: the enum variant of a code
RDKafkaErrorOf(err) ==
    CASE err = RD_KAFKA_RESP_ERR_NO_ERROR -> "NoError"
      [] err = RD_KAFKA_RESP_ERR__MSG_TIMED_OUT -> "MessageTimedOut"
      [] err = RD_KAFKA_RESP_ERR__UNKNOWN_PARTITION -> "UnknownPartition"
      [] err = RD_KAFKA_RESP_ERR__INVALID_ARG -> "InvalidArgument"
      [] err = RD_KAFKA_RESP_ERR__QUEUE_FULL -> "QueueFull"

\* The response code an RDKafkaError variant stands for
RespErrOf(e) ==
    CASE e = "NoError" -> RD_KAFKA_RESP_ERR_NO_ERROR
      [] e = "MessageTimedOut" -> RD_KAFKA_RESP_ERR__MSG_TIMED_OUT
      [] e = "UnknownPartition" -> RD_KAFKA_RESP_ERR__UNKNOWN_PARTITION
      [] e = "InvalidArgument" -> RD_KAFKA_RESP_ERR__INVALID_ARG
      [] e = "QueueFull" -> RD_KAFKA_RESP_ERR__QUEUE_FULL

\* KafkaError variants: MessageProduction(RDKafkaError), Nul(NulError)
MessageProduction(e) == [kind |-> "MessageProduction", detail |-> e]
Nul(pos) == [kind |-> "Nul", detail |-> ToString(pos)]
NoKafkaError == [kind |-> "none", detail |-> ""]

\* KafkaResult<()>
Ok == [ok |-> TRUE, err |-> NoKafkaError]
Err(e) == [ok |-> FALSE, err |-> e]

\* ------------------------------------------------------------ DeliveryReport
\* DeliveryReport::new
DeliveryReportNew(err, partition, offset) ==
    [error |-> err, partition |-> partition, offset |-> offset]

\* DeliveryReport::success
success(report) == ~is_error(report.error)

\* A result() that pairs offset and partition in the wrong order
result_swapped(report) ==
    IF is_error(report.error)
    THEN [ok |-> FALSE, val |-> <<>>, err |-> MessageProduction(RDKafkaErrorOf(report.error))]
    ELSE [ok |-> TRUE, val |-> <<report.offset, report.partition>>, err |-> NoKafkaError]

\* DeliveryReport::result
result(report) ==
    IF is_error(report.error)
    THEN [ok |-> FALSE, val |-> <<>>, err |-> MessageProduction(RDKafkaErrorOf(report.error))]
    ELSE [ok |-> TRUE, val |-> <<report.partition, report.offset>>, err |-> NoKafkaError]

\* ------------------------------------------------------------ inputs
\* Topic names are byte strings; byte 0 is NUL.
TopicOk == <<116>>
TopicEmpty == <<>>
TopicNul == <<116, 0, 116>>

\* CString::new: fails on any zero byte, else appends the terminator
CStringNew(bytes) ==
    IF \E i \in 1..Len(bytes) : bytes[i] = 0
    THEN [ok |-> FALSE, bytes |-> <<>>,
          nul_position |-> CHOOSE i \in 1..Len(bytes) :
                              /\ bytes[i] = 0
                              /\ \A j \in 1..(i - 1) : bytes[j] # 0]
    ELSE [ok |-> TRUE, bytes |-> Append(bytes, 0), nul_position |-> 0]

\* The argument tuples send_copy is called with.  delivery_context is
\* None or Some(Box::new(v)); the box of call number id lives at address id.
SendArgs ==
    { [topic_name |-> TopicOk, partition |-> None, payload |-> Some(<<1>>),
       key |-> Some(<<7>>), delivery_context |-> Some(11), timestamp |-> None],
      [topic_name |-> TopicOk, partition |-> Some(0), payload |-> Some(<<1>>),
       key |-> None, delivery_context |-> Some(12), timestamp |-> Some(5)],
      [topic_name |-> TopicOk, partition |-> Some(0), payload |-> None,
       key |-> None, delivery_context |-> None, timestamp |-> None],
      [topic_name |-> TopicOk, partition |-> Some(NPartitions), payload |-> None,
       key |-> None, delivery_context |-> Some(14), timestamp |-> None],
      [topic_name |-> TopicEmpty, partition |-> None, payload |-> Some(<<1>>),
       key |-> None, delivery_context |-> Some(15), timestamp |-> None],
      [topic_name |-> TopicNul, partition |-> None, payload |-> Some(<<1>>),
       key |-> None, delivery_context |-> Some(16), timestamp |-> None] }

\* ------------------------------------------------------------ state
VARIABLES
    handle,      \* BaseProducer.client_arc of each handle: a client, or 0 (no such handle)
    clients,     \* the Client values ever built: Arc strong count, connection, context
    calls,       \* ghost: the send_copy calls made, in order: arguments and result
    owner,       \* who owns the Box<DeliveryContext> of each call
    inflight,    \* engine: accepted messages not yet decided, per partition
    next_offset, \* engine: next offset of each partition
    rep,         \* engine: the reply queue of decided messages (rk_rep)
    thr,         \* each application thread: where it is inside poll / flush
    deliveries,  \* ghost: the invocations of ProducerContext::delivery, in order
    crashed      \* the process died on an invalid memory access

vars == <<handle, clients, calls, owner, inflight, next_offset, rep, thr,
          deliveries, crashed>>

\* A thread outside any call.  After a flush has returned, api, expired and
\* prior keep what that flush ended with; after a poll has returned, api, ret
\* and made keep its return value and the number of delivery invocations made
\* during it (ghost).  Inside a call, rko is the event the engine is serving
\* and served the number of events it has taken off the queue.
Idle ==
    [pc |-> "idle", api |-> "none", op |-> "none", h |-> 0, rk |-> 0,
     expired |-> FALSE, served |-> 0, cur |-> None, prior |-> {},
     rko |-> 0, made |-> 0, ret |-> 0]

\* from_config_and_context + from_client: one Client in one Arc, one handle
Init ==
    /\ handle = [h \in Handles |-> IF h = 1 THEN 1 ELSE 0]
    /\ clients = <<[strong |-> 1, open |-> TRUE, context |-> "alive", bridge_drops |-> 0]>>
    /\ calls = <<>>
    /\ owner = <<>>
    /\ inflight = [p \in Partitions |-> <<>>]
    /\ next_offset = [p \in Partitions |-> 0]
    /\ rep = <<>>
    /\ thr = [t \in Threads |-> Idle]
    /\ deliveries = <<>>
    /\ crashed = FALSE

\* ------------------------------------------------------------ helpers
\* s without its i-th element
RemoveAt(s, i) == SubSeq(s, 1, i - 1) \o SubSeq(s, i + 1, Len(s))

Delivered(id) == \E i \in 1..Len(deliveries) : deliveries[i].msg = id

Accepted(id) ==
    /\ id \in 1..Len(calls)
    /\ calls[id].producev = Some(RD_KAFKA_RESP_ERR_NO_ERROR)

Unreported == {id \in 1..Len(calls) : Accepted(id) /\ ~Delivered(id)}

\* A native_ptr that is shared by no one: every handle gets its own
native_ptr_of_handle(h) == h

\* BaseProducer::native_ptr: the connection of the shared Client
native_ptr(h) == handle[h]

\* ------------------------------------------------------------ engine interface
\* The engine's partitioner: a hash of the key bytes it was given; any
\* partition when it was given no key or an empty one
Partitioner(key) ==
    IF ~key.null /\ key.len > 0
    THEN {(key.bytes[1]) % NPartitions}
    ELSE Partitions

\* rd_kafka_producev: the answers the engine can give to a produce call
ProducevAnswers(topic_c, partition) ==
    IF Len(topic_c) = 1
    THEN {RD_KAFKA_RESP_ERR__INVALID_ARG}
    ELSE IF partition # RD_KAFKA_PARTITION_UA /\ partition \notin Partitions
    THEN {RD_KAFKA_RESP_ERR__UNKNOWN_PARTITION}
    ELSE {RD_KAFKA_RESP_ERR_NO_ERROR, RD_KAFKA_RESP_ERR__QUEUE_FULL}

\* The partitions the engine may queue an accepted message on
TargetPartitions(partition, key) ==
    IF partition = RD_KAFKA_PARTITION_UA THEN Partitioner(key) ELSE {partition}

InFlight(id) ==
    \E p \in Partitions : \E i \in 1..Len(inflight[p]) : inflight[p][i].id = id

Queued(id) == \E i \in 1..Len(rep) : rep[i].id = id

InCallback(id) ==
    \E t \in Threads : IsSome(thr[t].cur) /\ Unwrap(thr[t].cur).id = id

\* rd_kafka_outq_len: messages of rk not yet decided, decided but not served,
\* and messages whose delivery callback has not returned
outq_len(rk) ==
    Cardinality({id \in 1..Len(calls) :
        \/ \E p \in Partitions : \E i \in 1..Len(inflight[p]) :
              inflight[p][i].id = id /\ inflight[p][i].rk = rk
        \/ \E i \in 1..Len(rep) : rep[i].id = id /\ rep[i].rk = rk
        \/ \E t \in Threads :
              /\ IsSome(thr[t].cur)
              /\ Unwrap(thr[t].cur).id = id
              /\ Unwrap(thr[t].cur).rk = rk })

\* ------------------------------------------------------------ handles
\* A clone that builds a Client of its own instead of sharing the Arc
Clone_NewClient(h, h2) ==
    /\ ~crashed
    /\ handle[h] # 0
    /\ handle[h2] = 0
    /\ clients' = Append(clients, [strong |-> 1, open |-> TRUE, context |-> "alive", bridge_drops |-> 0])
    /\ handle' = [handle EXCEPT ![h2] = Len(clients) + 1]
    /\ UNCHANGED <<calls, owner, inflight, next_offset, rep, thr, deliveries, crashed>>

\* impl Clone for BaseProducer: Arc::clone of client_arc
Clone(h, h2) ==
    /\ ~crashed
    /\ handle[h] # 0
    /\ handle[h2] = 0
    /\ handle' = [handle EXCEPT ![h2] = handle[h]]
    /\ clients' = [clients EXCEPT ![handle[h]].strong = @ + 1]
    /\ UNCHANGED <<calls, owner, inflight, next_offset, rep, thr, deliveries, crashed>>

\* Dropping a BaseProducer drops its Arc<Client>; the last one drops the
\* Client, which closes the connection and drops the context.  A handle
\* borrowed by a running poll or flush cannot be dropped.  Dropping a context
\* that delivery_cb has dropped already frees it a second time: the process
\* dies, or goes on.
Drop(h) ==
    /\ ~crashed
    /\ handle[h] # 0
    /\ \A t \in Threads : thr[t].pc # "idle" => thr[t].h # h
    /\ handle' = [handle EXCEPT ![h] = 0]
    /\ clients' = [clients EXCEPT ![handle[h]] =
                      IF @.strong = 1
                      THEN [@ EXCEPT !.strong = 0, !.open = FALSE, !.context = "dropped"]
                      ELSE [@ EXCEPT !.strong = @ - 1]]
    /\ IF clients[handle[h]].strong = 1 /\ clients[handle[h]].bridge_drops > 0
       THEN crashed' \in BOOLEAN
       ELSE UNCHANGED crashed
    /\ UNCHANGED <<calls, owner, inflight, next_offset, rep, thr, deliveries>>

\* ------------------------------------------------------------ send_copy
\* match delivery_context { Some(context) => Box::into_raw(context), None => null }
\* The box of call id lives at address id.
delivery_context_ptr(delivery_context, id) ==
    IF IsSome(delivery_context) THEN id ELSE NULL

\* match payload.map(P::to_bytes) / key.map(K::to_bytes):
\* None => (ptr::null_mut(), 0), Some(b) => (b.as_ptr(), b.len())
bytes_arg(b) ==
    IF IsSome(b)
    THEN [null |-> FALSE, bytes |-> Unwrap(b), len |-> Len(Unwrap(b))]
    ELSE [null |-> TRUE, bytes |-> <<>>, len |-> 0]

\* let (payload_ptr, payload_len) = ...
payload_arg(payload) == bytes_arg(payload)

\* A key argument that is always the null pointer
key_arg_absent(key) == bytes_arg(None)

\* let (key_ptr, key_len) = ...
key_arg(key) == bytes_arg(key)

\* RD_KAFKA_VTYPE_MSGFLAGS, rdsys::RD_KAFKA_MSG_F_COPY
RD_KAFKA_MSG_F_COPY == 2

\* A timestamp argument that is always the default
timestamp_arg_unset(timestamp) == 0

\* RD_KAFKA_VTYPE_TIMESTAMP, timestamp.unwrap_or(0)
timestamp_arg(timestamp) == UnwrapOr(timestamp, 0)

\* A partition argument that drops the caller's partition
partition_arg_unassigned(partition) == RD_KAFKA_PARTITION_UA

\* RD_KAFKA_VTYPE_PARTITION, partition.unwrap_or(-1)
partition_arg(partition) == UnwrapOr(partition, RD_KAFKA_PARTITION_UA)

\* A topic conversion that cuts the name at the first zero byte instead of failing
topic_name_c_truncating(topic_name) ==
    LET c == CStringNew(topic_name)
    IN IF c.ok THEN c
       ELSE [ok |-> TRUE, bytes |-> Append(SubSeq(topic_name, 1, c.nul_position - 1), 0),
             nul_position |-> 0]

\* CString::new(topic_name.to_owned())
topic_name_c(topic_name) == CStringNew(topic_name)

\* A result that reports every send as accepted
send_result_always_ok(produce_error) == Ok

\* if produce_error.is_error() { Err(MessageProduction(..)) } else { Ok(()) }
send_result(produce_error) ==
    IF is_error(produce_error)
    THEN Err(MessageProduction(RDKafkaErrorOf(produce_error)))
    ELSE Ok

\* The argument list of rd_kafka_producev, up to RD_KAFKA_VTYPE_END
producev_args(h, a, id) ==
    [rk |-> native_ptr(h),
     topic |-> topic_name_c(a.topic_name).bytes,
     partition |-> partition_arg(a.partition),
     msgflags |-> RD_KAFKA_MSG_F_COPY,
     value |-> payload_arg(a.payload),
     key |-> key_arg(a.key),
     opaque |-> delivery_context_ptr(a.delivery_context, id),
     timestamp |-> timestamp_arg(a.timestamp)]

\* Where the Box<DeliveryContext> of a call is once send_copy has returned:
\* Box::into_raw gave up ownership, and only an accepted message keeps the pointer.
owner_after_send(ptr, produced, produce_error) ==
    IF ptr = NULL THEN "absent"
    ELSE IF produced /\ ~is_error(produce_error) THEN "engine"
    ELSE "leaked"

\* A send_copy that reports a synchronous rejection through delivery at once
SendCopy_ReportsRejection(t, h, a) ==
    /\ ~crashed
    /\ thr[t].pc = "idle"
    /\ handle[h] # 0
    /\ Len(calls) < MaxSends
    /\ LET id == Len(calls) + 1
           ptr == delivery_context_ptr(a.delivery_context, id)
           c == topic_name_c(a.topic_name)
           v == producev_args(h, a, id)
       IN IF ~c.ok
          THEN /\ calls' = Append(calls, [args |-> a, via |-> h, passed |-> <<>>,
                                          producev |-> None,
                                          ret |-> Err(Nul(c.nul_position))])
               /\ owner' = Append(owner, owner_after_send(ptr, FALSE, 0))
               /\ UNCHANGED <<inflight, next_offset, deliveries>>
          ELSE \E produce_error \in ProducevAnswers(v.topic, v.partition) :
               /\ calls' = Append(calls, [args |-> a, via |-> h, passed |-> <<v>>,
                                          producev |-> Some(produce_error),
                                          ret |-> send_result(produce_error)])
               /\ owner' = Append(owner, owner_after_send(ptr, TRUE, produce_error))
               /\ IF is_error(produce_error)
                  THEN /\ UNCHANGED inflight
                       /\ deliveries' = Append(deliveries,
                             [msg |-> id,
                              event |-> [id |-> id, rk |-> v.rk,
                                         err |-> produce_error, partition |-> v.partition,
                                         offset |-> RD_KAFKA_OFFSET_INVALID,
                                         private |-> v.opaque],
                              success |-> FALSE,
                              result |-> result(DeliveryReportNew(produce_error, v.partition,
                                                   RD_KAFKA_OFFSET_INVALID)),
                              delivery_context |-> a.delivery_context, h |-> h])
                  ELSE /\ \E p \in TargetPartitions(v.partition, v.key) :
                             inflight' = [inflight EXCEPT ![p] =
                                 Append(@, [id |-> id, rk |-> v.rk,
                                            partition |-> p, private |-> v.opaque])]
                       /\ UNCHANGED deliveries
               /\ UNCHANGED next_offset
    /\ UNCHANGED <<handle, clients, rep, thr, crashed>>

\* BaseProducer::send_copy
SendCopy(t, h, a) ==
    /\ ~crashed
    /\ thr[t].pc = "idle"
    /\ handle[h] # 0
    /\ Len(calls) < MaxSends
    /\ LET id == Len(calls) + 1
           ptr == delivery_context_ptr(a.delivery_context, id)
           c == topic_name_c(a.topic_name)
           v == producev_args(h, a, id)
       IN IF ~c.ok
          THEN \* the ? operator returns the NulError before the engine is called
               /\ calls' = Append(calls, [args |-> a, via |-> h, passed |-> <<>>,
                                          producev |-> None,
                                          ret |-> Err(Nul(c.nul_position))])
               /\ owner' = Append(owner, owner_after_send(ptr, FALSE, 0))
               /\ UNCHANGED <<inflight, next_offset>>
          ELSE \E produce_error \in ProducevAnswers(v.topic, v.partition) :
               /\ calls' = Append(calls, [args |-> a, via |-> h, passed |-> <<v>>,
                                          producev |-> Some(produce_error),
                                          ret |-> send_result(produce_error)])
               /\ owner' = Append(owner, owner_after_send(ptr, TRUE, produce_error))
               /\ IF is_error(produce_error)
                  THEN UNCHANGED inflight
                  ELSE \E p \in TargetPartitions(v.partition, v.key) :
                          inflight' = [inflight EXCEPT ![p] =
                              Append(@, [id |-> id, rk |-> v.rk,
                                         partition |-> p, private |-> v.opaque])]
               /\ UNCHANGED next_offset
    /\ UNCHANGED <<handle, clients, rep, thr, deliveries, crashed>>

\* ------------------------------------------------------------ engine
ConnOpen(rk) == rk \in 1..Len(clients) /\ clients[rk].open

\* The least of a set of queue positions, or 0 when there is none
FirstIn(S) == IF S = {} THEN 0 ELSE CHOOSE i \in S : \A j \in S : i <= j

\* Index of the first entry of the reply queue that opens an event of rk
\* (an event is taken off the queue whole, by one caller), or 0
FirstFor(rk) ==
    FirstIn({i \in 1..Len(rep) : rep[i].rk = rk /\ rep[i].rko = rep[i].id})

\* Index of the next completion of the event thread t is serving, or 0
RestOfEvent(t) ==
    FirstIn({i \in 1..Len(rep) :
                rep[i].rk = thr[t].rk /\ rep[i].rko = thr[t].rko})

\* The delivery report events a new completion of message m can be part of:
\* an event of its own, or the event of the completion queued last, when that
\* one is still on the queue and is of the same connection and partition (the
\* engine reports the messages of one produce request in one event).
ReportEvents(m) ==
    {m.id} \cup
    IF /\ rep # <<>>
       /\ rep[Len(rep)].rk = m.rk
       /\ rep[Len(rep)].partition = m.partition
       /\ \E i \in 1..Len(rep) : rep[i].id = rep[Len(rep)].rko
    THEN {rep[Len(rep)].rko}
    ELSE {}

\* The engine's own thread decides the fate of the oldest message of a
\* partition and queues the completion on the reply queue.
EngineComplete(p) ==
    /\ ~crashed
    /\ inflight[p] # <<>>
    /\ ConnOpen(Head(inflight[p]).rk)
    /\ \E err \in {RD_KAFKA_RESP_ERR_NO_ERROR, RD_KAFKA_RESP_ERR__MSG_TIMED_OUT},
          rko \in ReportEvents(Head(inflight[p])) :
          LET m == Head(inflight[p])
              offset == IF is_error(err) THEN RD_KAFKA_OFFSET_INVALID ELSE next_offset[p]
          IN /\ rep' = Append(rep, [id |-> m.id, rk |-> m.rk, err |-> err,
                                    partition |-> m.partition, offset |-> offset,
                                    private |-> m.private, rko |-> rko])
             /\ next_offset' = IF is_error(err) THEN next_offset
                               ELSE [next_offset EXCEPT ![p] = @ + 1]
    /\ inflight' = [inflight EXCEPT ![p] = Tail(@)]
    /\ UNCHANGED <<handle, clients, calls, owner, thr, deliveries, crashed>>

\* ------------------------------------------------------------ poll, flush
\* BaseProducer::poll: rd_kafka_poll(self.native_ptr(), timeout_ms)
poll(h) == [op |-> "rd_kafka_poll", rk |-> native_ptr(h)]

\* BaseProducer::flush: rd_kafka_flush(self.native_ptr(), timeout_ms)
flush(h) == [op |-> "rd_kafka_flush", rk |-> native_ptr(h)]

\* The application calls poll on a handle
PollCall(t, h) ==
    /\ ~crashed
    /\ thr[t].pc = "idle"
    /\ handle[h] # 0
    /\ LET c == poll(h)
       IN thr' = [thr EXCEPT ![t] = [Idle EXCEPT !.pc = "serve", !.api = "poll",
                      !.op = c.op, !.h = h, !.rk = c.rk]]
    /\ UNCHANGED <<handle, clients, calls, owner, inflight, next_offset, rep,
                   deliveries, crashed>>

\* The application calls flush on a handle
FlushCall(t, h) ==
    /\ ~crashed
    /\ thr[t].pc = "idle"
    /\ handle[h] # 0
    /\ LET c == flush(h)
       IN thr' = [thr EXCEPT ![t] = [Idle EXCEPT !.pc = "serve", !.api = "flush",
                      !.op = c.op, !.h = h, !.rk = c.rk, !.prior = Unreported]]
    /\ UNCHANGED <<handle, clients, calls, owner, inflight, next_offset, rep,
                   deliveries, crashed>>

\* rd_kafka_poll / rd_kafka_flush take the next completion of their
\* connection off the reply queue, to call the registered dr_msg_cb with it.
Serve(t) ==
    /\ ~crashed
    /\ thr[t].pc = "serve"
    /\ IF RestOfEvent(t) # 0
       THEN LET i == RestOfEvent(t)
            IN /\ thr' = [thr EXCEPT ![t].pc = "cb", ![t].cur = Some(rep[i])]
               /\ rep' = RemoveAt(rep, i)
       ELSE /\ FirstFor(thr[t].rk) # 0
            /\ LET i == FirstFor(thr[t].rk)
               IN /\ thr' = [thr EXCEPT ![t].pc = "cb", ![t].cur = Some(rep[i]),
                                         ![t].rko = rep[i].rko, ![t].served = @ + 1]
                  /\ rep' = RemoveAt(rep, i)
    /\ UNCHANGED <<handle, clients, calls, owner, inflight, next_offset,
                   deliveries, crashed>>

\* A poll that drops the engine's count, as flush does
poll_return_discarded(events) == 0

\* BaseProducer::poll returns what rd_kafka_poll returned
poll_return(events) == events

\* ghost: the thread record a returning call leaves: a flush leaves whether
\* its timeout ran out and which of the sends accepted before it are still
\* unreported; a poll leaves its return value and the number of delivery
\* invocations made during it
Returned(t, expired) ==
    IF thr[t].api = "flush"
    THEN [Idle EXCEPT !.api = "flush", !.expired = expired,
                      !.prior = thr[t].prior \cap Unreported]
    ELSE [Idle EXCEPT !.api = "poll", !.ret = poll_return(thr[t].served),
                      !.made = thr[t].made]

\* rd_kafka_poll returns: it served something, or its timeout ran out on an
\* empty queue
PollReturn(t) ==
    /\ ~crashed
    /\ thr[t].pc = "serve"
    /\ thr[t].op = "rd_kafka_poll"
    /\ RestOfEvent(t) = 0
    /\ \/ thr[t].served > 0
       \/ FirstFor(thr[t].rk) = 0
    /\ thr' = [thr EXCEPT ![t] = Returned(t, thr[t].served = 0)]
    /\ UNCHANGED <<handle, clients, calls, owner, inflight, next_offset, rep,
                   deliveries, crashed>>

\* rd_kafka_flush returns because nothing is outstanding any more
FlushDone(t) ==
    /\ ~crashed
    /\ thr[t].pc = "serve"
    /\ thr[t].op = "rd_kafka_flush"
    /\ outq_len(thr[t].rk) = 0
    /\ thr' = [thr EXCEPT ![t] = Returned(t, FALSE)]
    /\ UNCHANGED <<handle, clients, calls, owner, inflight, next_offset, rep,
                   deliveries, crashed>>

\* rd_kafka_flush returns because its timeout ran out
FlushTimeout(t) ==
    /\ ~crashed
    /\ thr[t].pc = "serve"
    /\ thr[t].op = "rd_kafka_flush"
    /\ RestOfEvent(t) = 0
    /\ thr' = [thr EXCEPT ![t] = Returned(t, TRUE)]
    /\ UNCHANGED <<handle, clients, calls, owner, inflight, next_offset, rep,
                   deliveries, crashed>>

\* ------------------------------------------------------------ delivery_cb
\* The value a Box<DeliveryContext> at address ptr holds
BoxValue(ptr) == Unwrap(calls[ptr].args.delivery_context)

\* ghost: one invocation of ProducerContext::delivery, and what the
\* application reads from the report
Invocation(t, msg, report, delivery_context) ==
    [msg |-> msg.id, event |-> msg,
     success |-> success(report), result |-> result(report),
     delivery_context |-> delivery_context, h |-> thr[t].h]

\* The application's delivery method: it panics when it is handed this
\* delivery context, and returns for every other one
DeliveryPanics(delivery_context) == delivery_context = Some(12)

\* What a read through the null pointer gives when it does not fault: a value
\* no send_copy call passed
Garbage == -1

\* let delivery_context = Box::from_raw((*msg)._private); ... (*delivery_context)
moved_out(private) ==
    IF private # NULL THEN Some(BoxValue(private)) ELSE Some(Garbage)

\* The box of the delivery context after the value was moved out of it into
\* delivery: freed when delivery_context goes out of scope
owner_after_delivery(private) ==
    IF private # NULL THEN [owner EXCEPT ![private] = "released"] ELSE owner

\* delivery_cb, called by the engine with the completion it took off the
\* queue: both boxes are rebuilt from the raw pointers, the report is built,
\* the delivery context is moved out of its box into delivery, the context box
\* is forgotten and the emptied delivery context box is freed.
\*  - Moving out of a box rebuilt from the null pointer is an invalid read:
\*    the process dies, or delivery runs on whatever was read.
\*  - When delivery panics, mem::forget is not reached: the process aborts at
\*    the extern "C" boundary, or the unwinding drops the context box and goes
\*    on through the engine into the caller of poll or flush.
\*  - Calling delivery on a context that an earlier unwinding dropped is a use
\*    after free: the process dies, or the call goes on.
delivery_cb(t) ==
    /\ ~crashed
    /\ thr[t].pc = "cb"
    /\ LET msg == Unwrap(thr[t].cur)
           delivery_status == DeliveryReportNew(msg.err, msg.partition, msg.offset)
           delivery_context == moved_out(msg.private)
           invoked == Append(deliveries,
                             Invocation(t, msg, delivery_status, delivery_context))
       IN \/ /\ msg.private = NULL
             /\ crashed' = TRUE
             /\ thr' = [thr EXCEPT ![t].pc = "segv"]
             /\ UNCHANGED <<deliveries, owner, clients>>
          \/ /\ clients[msg.rk].bridge_drops > 0
             /\ crashed' = TRUE
             /\ thr' = [thr EXCEPT ![t].pc = "uaf"]
             /\ UNCHANGED <<deliveries, owner, clients>>
          \/ /\ ~DeliveryPanics(delivery_context)
             /\ deliveries' = invoked
             /\ owner' = owner_after_delivery(msg.private)
             /\ thr' = [thr EXCEPT ![t].pc = "serve", ![t].made = @ + 1,
                                   ![t].cur = None]
             /\ UNCHANGED <<crashed, clients>>
          \/ /\ DeliveryPanics(delivery_context)
             /\ deliveries' = invoked
             /\ owner' = owner_after_delivery(msg.private)
             /\ \/ /\ crashed' = TRUE
                   /\ thr' = [thr EXCEPT ![t].pc = "abort"]
                   /\ UNCHANGED clients
                \/ /\ clients' = [clients EXCEPT ![msg.rk].bridge_drops = @ + 1]
                   /\ thr' = [thr EXCEPT ![t] = [Idle EXCEPT !.api = "panicked"]]
                   /\ UNCHANGED crashed
    /\ UNCHANGED <<handle, calls, inflight, next_offset, rep>>

\* ------------------------------------------------------------ specification
Next ==
    \/ \E h, h2 \in Handles : Clone(h, h2)
    \/ \E h \in Handles : Drop(h)
    \/ \E t \in Threads, a \in SendArgs : SendCopy(t, OwnHandle(t), a)
    \/ \E p \in Partitions : EngineComplete(p)
    \/ \E t \in Threads : PollCall(t, OwnHandle(t))
    \/ \E t \in Threads : FlushCall(t, OwnHandle(t))
    \/ \E t \in Threads : Serve(t)
    \/ \E t \in Threads : PollReturn(t)
    \/ \E t \in Threads : FlushDone(t)
    \/ \E t \in Threads : FlushTimeout(t)
    \/ \E t \in Threads : delivery_cb(t)

Spec == Init /\ [][Next]_vars

\* ------------------------------------------------------------ properties
\* The places an accepted message can be: queued in the engine, on the reply
\* queue, taken by a polling thread, or reported.
Traced(id) == InFlight(id) \/ Queued(id) \/ InCallback(id) \/ Delivered(id)

HasNul(bytes) == \E i \in 1..Len(bytes) : bytes[i] = 0

DeliveryCount(id) ==
    Cardinality({i \in 1..Len(deliveries) : deliveries[i].msg = id})

\* C2: a send_copy call that returns an error is never reported through
\* delivery, and the delivery context passed to it is back with the caller
\* (not with the engine, not destroyed, not leaked).
C2_RejectedContextReturned ==
    \A id \in 1..Len(calls) :
        ~calls[id].ret.ok =>
            /\ ~Delivered(id)
            /\ IsSome(calls[id].args.delivery_context) => owner[id] = "caller"

\* C5: the report delivery receives is failing, with the MessageProduction
\* error of the completion's code, exactly when that code is an error;
\* otherwise it is successful and its result is the completion's
\* (partition, offset).
C5_ReportMapping ==
    \A i \in 1..Len(deliveries) :
        LET d == deliveries[i]
        IN /\ d.event.err # 0 =>
                /\ d.success = FALSE
                /\ d.result.ok = FALSE
                /\ d.result.err.kind = "MessageProduction"
                /\ RespErrOf(d.result.err.detail) = d.event.err
           /\ d.event.err = 0 =>
                /\ d.success = TRUE
                /\ d.result.ok = TRUE
                /\ d.result.val = <<d.event.partition, d.event.offset>>

C5_Witness ==
    /\ \E i \in 1..Len(deliveries) : deliveries[i].event.err # 0
    /\ \E i \in 1..Len(deliveries) :
          /\ deliveries[i].event.err = 0
          /\ deliveries[i].event.partition # deliveries[i].event.offset

\* C7: send_copy returns Ok exactly when the engine accepted the message; a
\* message the engine rejected comes back as the MessageProduction error of
\* the engine's code and is nowhere in the engine; a message that fails after
\* it was accepted had Ok as its send result.
C7_SendResult ==
    /\ \A id \in 1..Len(calls) :
          LET c == calls[id]
          IN /\ c.ret.ok <=> c.producev = Some(RD_KAFKA_RESP_ERR_NO_ERROR)
             /\ (IsSome(c.producev) /\ Unwrap(c.producev) # 0) =>
                   /\ c.ret.err.kind = "MessageProduction"
                   /\ RespErrOf(c.ret.err.detail) = Unwrap(c.producev)
                   /\ ~Traced(id)
    /\ \A i \in 1..Len(deliveries) :
          deliveries[i].event.err # 0 => calls[deliveries[i].msg].ret.ok

C7_Witness ==
    /\ \E id \in 1..Len(calls) :
          IsSome(calls[id].producev) /\ Unwrap(calls[id].producev) # 0
    /\ \E i \in 1..Len(deliveries) : deliveries[i].event.err # 0

\* C8: a send_copy call whose topic name holds a zero byte fails with an
\* error other than MessageProduction, the engine's produce operation is not
\* called and no message is queued.
C8_NulTopic ==
    \A id \in 1..Len(calls) :
        HasNul(calls[id].args.topic_name) =>
            /\ ~calls[id].ret.ok
            /\ calls[id].ret.err.kind # "MessageProduction"
            /\ calls[id].producev = None
            /\ ~Traced(id)

C8_Witness ==
    \E id \in 1..Len(calls) :
        HasNul(calls[id].args.topic_name) /\ calls[id].ret.err.kind = "Nul"

LiveHandles == {h \in Handles : handle[h] # 0}

\* s is a prefix of r
IsPrefix(s, r) == Len(s) <= Len(r) /\ SubSeq(r, 1, Len(s)) = s

\* What a returned flush leaves: one that returned before its timeout ran
\* out left none of the sends accepted before it unreported; the sends still
\* unreported when a flush returned are still in flight (with the engine,
\* undecided or decided, their delivery context still the engine's) until
\* they are reported.
C3_FlushReturn ==
    \A t \in Threads :
        (thr[t].pc = "idle" /\ thr[t].api = "flush") =>
            /\ ~thr[t].expired => thr[t].prior = {}
            /\ \A id \in thr[t].prior :
                  \/ Delivered(id)
                  \/ /\ InFlight(id) \/ Queued(id) \/ InCallback(id)
                     /\ owner[id] \in {"engine", "absent"}

\* A send that was pending when a flush timed out has been reported since.
C3_Witness ==
    \E t \in Threads :
        /\ thr[t].pc = "idle"
        /\ thr[t].api = "flush"
        /\ thr[t].expired
        /\ \E id \in thr[t].prior : Delivered(id)

\* C4: every handle polls the one connection, so every pending completion
\* can be taken by a poll on any live handle, whichever handle sent the
\* message; a completion taken by one poll is pending for no handle any more.
C4_SharedQueue ==
    /\ \A h1, h2 \in LiveHandles : native_ptr(h1) = native_ptr(h2)
    /\ \A h \in LiveHandles :
          /\ \A i \in 1..Len(rep) : rep[i].rk = native_ptr(h)
          /\ \A p \in Partitions : \A i \in 1..Len(inflight[p]) :
                inflight[p][i].rk = native_ptr(h)
    /\ \A id \in 1..Len(calls) :
          /\ (InCallback(id) \/ Delivered(id)) => ~Queued(id)
          /\ Cardinality({t \in Threads :
                IsSome(thr[t].cur) /\ Unwrap(thr[t].cur).id = id}) <= 1
          /\ Cardinality({i \in 1..Len(rep) : rep[i].id = id}) <= 1

\* The clone's poll has reported a send of the original, and the original's
\* poll a send of the clone.
C4_Witness ==
    /\ \E i \in 1..Len(deliveries) :
          calls[deliveries[i].msg].via = 1 /\ deliveries[i].h = 2
    /\ \E i \in 1..Len(deliveries) :
          calls[deliveries[i].msg].via = 2 /\ deliveries[i].h = 1

\* C6: delivery is invoked only by a thread that is inside poll or flush, for
\* the completion that thread took off the queue; and while no thread is
\* inside poll or flush nothing is reported and every queued completion stays
\* queued.
C6_DeliveryOnlyInPoll ==
    [][ /\ deliveries' # deliveries =>
             \E t \in Threads :
                /\ thr[t].pc = "cb"
                /\ thr[t].api \in {"poll", "flush"}
                /\ Len(deliveries') = Len(deliveries) + 1
                /\ SubSeq(deliveries', 1, Len(deliveries)) = deliveries
                /\ deliveries'[Len(deliveries')].msg = Unwrap(thr[t].cur).id
        /\ (\A t \in Threads : thr[t].pc = "idle") =>
             /\ deliveries' = deliveries
             /\ IsPrefix(rep, rep')
      ]_vars

\* A completion sits on the reply queue while no thread polls, after another
\* one was reported.
C6_Witness ==
    /\ rep # <<>>
    /\ \A t \in Threads : thr[t].pc = "idle"
    /\ deliveries # <<>>

\* C10: there is one Client (one connection, one context) whatever was
\* cloned and dropped; its reference count is the number of handles; it is
\* open with its context alive exactly while a handle exists; a clone adds
\* one reference and changes nothing else.
C10_Inv ==
    /\ Len(clients) = 1
    /\ \A h \in LiveHandles : handle[h] = 1
    /\ clients[1].strong = Cardinality(LiveHandles)
    /\ clients[1].open <=> LiveHandles # {}
    /\ clients[1].context = "alive" <=> LiveHandles # {}

AssignedPartition(id) ==
    CHOOSE p \in Partitions :
        \/ \E i \in 1..Len(inflight[p]) : inflight[p][i].id = id
        \/ \E i \in 1..Len(rep) : rep[i].id = id /\ rep[i].partition = p
        \/ \E t \in Threads :
              /\ IsSome(thr[t].cur)
              /\ Unwrap(thr[t].cur).id = id
              /\ Unwrap(thr[t].cur).partition = p
        \/ \E i \in 1..Len(deliveries) :
              deliveries[i].msg = id /\ deliveries[i].event.partition = p

\* The topic partition a send was addressed to: the one the caller named, or
\* the one the engine's partitioner chose for it
PartitionOfSend(id) ==
    IF IsSome(calls[id].args.partition)
    THEN Unwrap(calls[id].args.partition)
    ELSE AssignedPartition(id)

\* Two accepted sends to one topic partition, a accepted before b
SamePartitionInOrder(a, b) ==
    /\ a < b
    /\ Accepted(a)
    /\ Accepted(b)
    /\ calls[a].args.topic_name = calls[b].args.topic_name
    /\ PartitionOfSend(a) = PartitionOfSend(b)

Taken(id) == InCallback(id) \/ Delivered(id)

\* C9 as claimed: the reports of two accepted sends to one partition are
\* passed to delivery in the order the sends were accepted.
C9_DeliveryOrder ==
    \A i, j \in 1..Len(deliveries) :
        SamePartitionInOrder(deliveries[i].msg, deliveries[j].msg) => i < j

\* C9 as amended: the completions of two accepted sends to one partition are
\* taken off the reply queue in the order the sends were accepted, and one
\* polling thread passes the reports it took to delivery in that order.
C9_DispatchOrder ==
    \A a, b \in 1..Len(calls) :
        SamePartitionInOrder(a, b) =>
            /\ Taken(b) => Taken(a)
            /\ \A i, j \in 1..Len(deliveries) :
                  ( /\ deliveries[i].msg = a
                    /\ deliveries[j].msg = b
                    /\ deliveries[i].h = deliveries[j].h ) => i < j

\* Two sends to one partition were reported in order by one polling thread.
C9_Witness ==
    \E i, j \in 1..Len(deliveries) :
        /\ SamePartitionInOrder(deliveries[i].msg, deliveries[j].msg)
        /\ deliveries[i].h = deliveries[j].h
        /\ i < j

\* ------------------------------------------------------------ liveness
\* The schedule the claim about eventual delivery assumes: the engine's
\* thread keeps deciding queued messages, every thread calls poll or flush
\* again and again as long as it has a handle again and again, a poll in
\* progress takes a pending completion, a callback that was entered runs to
\* its end, and a call that can return does.
Fairness ==
    /\ \A p \in Partitions : WF_vars(EngineComplete(p))
    /\ \A t \in Threads :
          /\ SF_vars(PollCall(t, OwnHandle(t)) \/ FlushCall(t, OwnHandle(t)))
          /\ SF_vars(Serve(t))
          /\ WF_vars(delivery_cb(t))
          /\ WF_vars(PollReturn(t) \/ FlushDone(t) \/ FlushTimeout(t))

FairSpec == Init /\ [][Next]_vars /\ Fairness

\* C1: no accepted message is ever reported twice, and while the application
\* keeps polling on a live handle every accepted message is eventually
\* reported through delivery exactly once.
C1_ExactlyOnce ==
    /\ [](\A id \in 1..MaxSends : DeliveryCount(id) <= 1)
    /\ \A id \in 1..MaxSends :
          Accepted(id) ~> (DeliveryCount(id) = 1 \/ LiveHandles = {})

\* A flush returned on its timeout with the accepted send id still unreported
PendingAtTimeout(id) ==
    \E t \in Threads :
        /\ thr[t].pc = "idle"
        /\ thr[t].api = "flush"
        /\ thr[t].expired
        /\ id \in thr[t].prior

\* C3: a flush returns only with every send accepted before it reported, or
\* on its timeout with some of them pending; a send pending at the timeout
\* stays in flight, and while the application keeps polling on a live handle
\* a later poll or flush reports it.
C3_FlushContract ==
    /\ []C3_FlushReturn
    /\ \A id \in 1..MaxSends :
          PendingAtTimeout(id) ~> (Delivered(id) \/ LiveHandles = {})

\* A poll of thread t has returned and t has made no call since
PollReturned(t) == thr[t].pc = "idle" /\ thr[t].api = "poll"

\* C11 as claimed: the value poll returns is the number of delivery
\* invocations made during that poll, and 0 when nothing was pending.
C11_PollCountsDeliveries ==
    \A t \in Threads : PollReturned(t) => thr[t].ret = thr[t].made

\* C11 as amended: the value poll returns is the engine's count of events; an
\* event reports one or more messages, so at least that many delivery
\* invocations were made during the poll, and the value is 0 exactly when
\* none was made.
C11_PollCountsEvents ==
    \A t \in Threads :
        PollReturned(t) =>
            /\ thr[t].ret <= thr[t].made
            /\ thr[t].ret = 0 <=> thr[t].made = 0

\* One poll served one event that reported two messages, while the poll of
\* another thread found nothing.
C11_Witness ==
    \E t, u \in Threads :
        /\ PollReturned(t) /\ thr[t].ret = 1 /\ thr[t].made = 2
        /\ PollReturned(u) /\ thr[u].ret = 0

\* Two accepted sends with no partition given and the same non-empty key, to
\* the same topic
SameKeyUnassigned(a, b) ==
    /\ a # b
    /\ Accepted(a)
    /\ Accepted(b)
    /\ calls[a].args.topic_name = calls[b].args.topic_name
    /\ calls[a].args.partition = None
    /\ calls[b].args.partition = None
    /\ IsSome(calls[a].args.key)
    /\ calls[a].args.key = calls[b].args.key
    /\ Len(Unwrap(calls[a].args.key)) > 0

\* C12: two accepted sends to one topic with no partition given and
\* identical non-empty keys are queued on the same partition, and their
\* reports carry the same partition.
C12_SameKeySamePartition ==
    /\ \A a, b \in 1..Len(calls) :
          SameKeyUnassigned(a, b) =>
              /\ Head(calls[a].passed).partition = RD_KAFKA_PARTITION_UA
              /\ Head(calls[a].passed).key = Head(calls[b].passed).key
              /\ AssignedPartition(a) = AssignedPartition(b)
    /\ \A i, j \in 1..Len(deliveries) :
          SameKeyUnassigned(deliveries[i].msg, deliveries[j].msg) =>
              deliveries[i].event.partition = deliveries[j].event.partition

\* Both of two such sends have been reported.
C12_Witness ==
    \E i, j \in 1..Len(deliveries) :
        /\ SameKeyUnassigned(deliveries[i].msg, deliveries[j].msg)
        /\ deliveries[i].success
        /\ deliveries[j].success

\* The argument list the send_copy call id gave the engine
Passed(id) == Head(calls[id].passed)

\* C13: the bridge is invoked at most once for an accepted send, and each
\* invocation takes back one delivery context, the one of that send, passes
\* it to delivery and releases it: a context is released only once delivery
\* was invoked with it, and none is left unreleased by a finished callback.
C13_OneContextPerCallback ==
    /\ \A id \in 1..Len(calls) : DeliveryCount(id) <= 1
    /\ \A i \in 1..Len(deliveries) :
          /\ owner[deliveries[i].msg] = "released"
          /\ deliveries[i].delivery_context = calls[deliveries[i].msg].args.delivery_context
    /\ \A id \in 1..Len(calls) : owner[id] = "released" => Delivered(id)

\* C14: whatever number of completions the bridge has handled, it has not
\* dropped the producer context.
C14_ContextSurvivesBridge ==
    \A rk \in 1..Len(clients) : clients[rk].bridge_drops = 0

\* C15: the handle a completion carries is the one send_copy gave the engine
\* for that message, and the delivery context delivery receives is the value
\* that send_copy call was given, never that of another send.
C15_SameContextBack ==
    \A i \in 1..Len(deliveries) :
        LET id == deliveries[i].msg
        IN /\ Accepted(id)
           /\ deliveries[i].event.private = Passed(id).opaque
           /\ deliveries[i].delivery_context = calls[id].args.delivery_context

\* Every completion is with one party: on the queue, or taken by one thread,
\* or reported once; and a delivery context is released by one callback only.
C16_DispatchedOnce ==
    \A id \in 1..Len(calls) :
        /\ Cardinality({t \in Threads :
              IsSome(thr[t].cur) /\ Unwrap(thr[t].cur).id = id}) <= 1
        /\ DeliveryCount(id) <= 1
        /\ ~(Queued(id) /\ (InCallback(id) \/ Delivered(id)))
        /\ ~(InCallback(id) /\ Delivered(id)) \/ crashed
        /\ owner[id] = "released" => DeliveryCount(id) = 1

\* C16: with threads sending and polling concurrently on clones, every
\* completion is dispatched by one polling thread only, no delivery context is
\* rebuilt or released by two callbacks, and the shared producer context is
\* not destroyed.
C16_ConcurrentUse ==
    /\ C16_DispatchedOnce
    /\ \A rk \in 1..Len(clients) :
          clients[rk].strong > 0 => clients[rk].bridge_drops = 0

\* C17: the bridge rebuilds a delivery context only from a handle send_copy
\* made from a real value: it never reads through the null handle of a send
\* made without a delivery context.
C17_NoNullContext ==
    /\ \A t \in Threads : thr[t].pc # "segv"
    /\ \A i \in 1..Len(deliveries) : deliveries[i].event.private # NULL

\* A delivery invocation that panicked
Panicked(i) == DeliveryPanics(deliveries[i].delivery_context)

\* C18: when delivery panics, the bridge has not dropped the producer
\* context, whose only owner is still the shared client, and it has released
\* the delivery context once.
C18_PanicKeepsContext ==
    \A i \in 1..Len(deliveries) :
        Panicked(i) =>
            /\ clients[deliveries[i].event.rk].bridge_drops = 0
            /\ owner[deliveries[i].msg] = "released"
            /\ DeliveryCount(deliveries[i].msg) = 1

\* What the engine must be given for an optional byte span: nothing (a null
\* pointer, length 0) or the caller's bytes and their number
SpanGiven(span, given) ==
    IF given = None
    THEN span.null /\ span.len = 0
    ELSE ~span.null /\ span.bytes = given[1] /\ span.len = Len(given[1])

\* C19: send_copy calls the engine's produce operation at most once, and
\* gives it the caller's arguments with the documented defaults: partition
\* None as -1, timestamp None as 0, an absent payload or key as a null
\* pointer of length 0, a present one as its bytes and length, and the copy
\* flag set.
C19_ArgumentsPassed ==
    \A id \in 1..Len(calls) :
        LET a == calls[id].args
        IN /\ Len(calls[id].passed) <= 1
           /\ Len(calls[id].passed) = 1 <=> IsSome(calls[id].producev)
           /\ \A k \in 1..Len(calls[id].passed) :
                 LET v == calls[id].passed[k]
                 IN /\ v.partition = (IF a.partition = None THEN -1 ELSE a.partition[1])
                    /\ v.timestamp = (IF a.timestamp = None THEN 0 ELSE a.timestamp[1])
                    /\ SpanGiven(v.value, a.payload)
                    /\ SpanGiven(v.key, a.key)
                    /\ v.msgflags = 2

\* Calls with and without a partition, a timestamp, a payload and a key have
\* reached the engine.
C19_Witness ==
    \E i, j \in 1..Len(calls) :
        /\ Len(calls[i].passed) = 1
        /\ Len(calls[j].passed) = 1
        /\ calls[i].args.partition = None
        /\ calls[i].args.timestamp = None
        /\ calls[i].args.key # None
        /\ calls[j].args.partition # None
        /\ calls[j].args.timestamp # None
        /\ calls[j].args.key = None

====
